---- MODULE Spec2Model ----
(***************************************************************************)
(* MashedPotato (mashed_potato.py): the inotify driven monitor loop of     *)
(* ContinualMinifier, the staleness test needs_minifying, the error table  *)
(* error_files and its on-disk mirror MASH_ERRORS, and on their own the    *)
(* functions that read .mash and that decide and name what is minified.    *)
(*                                                                         *)
(* Paths are sequences of one-character strings, so that the string tests  *)
(* of the program (startswith, endswith, slicing) are computed, not        *)
(* assumed.  Time is an integer clock: time.time() and the mtime a write   *)
(* leaves both read it, and several steps may fall into one clock value    *)
(* (a timestamp resolution coarser than the steps).                        *)
(***************************************************************************)
EXTENDS Integers, Sequences, FiniteSets, TLC

----------------------------------------------------------------------------
(* Bounds of the model *)

\* the clock runs from 1 to MaxClock
MaxClock == 2
\* how many times the environment writes, deletes or removes something
MaxEdits == 1
\* the timestamp triples given to needs_minifying range over
\* -MaxOracleTime .. MaxOracleTime (an mtime before the epoch is negative)
MaxOracleTime == 2
\* configuration texts have at most MaxConfigLen characters
MaxConfigLen == 5
\* probe paths are made of at most MaxNameTokens pieces
MaxNameTokens == 4

----------------------------------------------------------------------------
(* Strings *)

startswith(s, prefix) ==
    /\ Len(s) >= Len(prefix)
    /\ SubSeq(s, 1, Len(prefix)) = prefix

endswith(s, suffix) ==
    /\ Len(s) >= Len(suffix)
    /\ SubSeq(s, Len(s) - Len(suffix) + 1, Len(s)) = suffix

endswith_any(s, suffixes) == \E x \in suffixes : endswith(s, x)

\* index of the last "/" of a path, 0 when it has none
LastSlash(p) ==
    IF \E i \in 1..Len(p) : p[i] = "/"
    THEN CHOOSE i \in 1..Len(p) :
            /\ p[i] = "/"
            /\ \A j \in (i + 1)..Len(p) : p[j] # "/"
    ELSE 0

\* os.path.split(path)[1]
basename(p) == SubSeq(p, LastSlash(p) + 1, Len(p))

\* os.path.split(path)[0], for the paths of the model (no root-level files)
dirname(p) == SubSeq(p, 1, LastSlash(p) - 1)

\* os.path.join(directory, name) for a relative name
path_join(d, n) == d \o <<"/">> \o n

EXT_JS == <<".", "j", "s">>
EXT_CSS == <<".", "c", "s", "s">>
DOT_MIN == <<".", "m", "i", "n">>

\* is_minifiable without the test of lines 95-96: a hidden file is accepted
is_minifiable_allows_hidden(file_path) ==
    LET file_name == basename(file_path) IN
    IF ~endswith_any(file_name, {EXT_JS, EXT_CSS}) THEN FALSE
    ELSE IF endswith_any(file_name, {DOT_MIN \o EXT_JS, DOT_MIN \o EXT_CSS}) THEN FALSE
    ELSE TRUE

is_minifiable(file_path) ==
    LET file_name == basename(file_path) IN
    IF startswith(file_name, <<".">>) THEN FALSE
    ELSE IF ~endswith_any(file_name, {EXT_JS, EXT_CSS}) THEN FALSE
    ELSE IF endswith_any(file_name, {DOT_MIN \o EXT_JS, DOT_MIN \o EXT_CSS}) THEN FALSE
    ELSE TRUE

\* the loop tries '.js' first and stops at the first extension that matches;
\* a path with neither extension leaves minified_path unbound (an exception),
\* shown here as the empty path
get_minified_name(file_path) ==
    IF endswith(file_path, EXT_JS)
    THEN SubSeq(file_path, 1, Len(file_path) - Len(EXT_JS)) \o DOT_MIN \o EXT_JS
    ELSE IF endswith(file_path, EXT_CSS)
    THEN SubSeq(file_path, 1, Len(file_path) - Len(EXT_CSS)) \o DOT_MIN \o EXT_CSS
    ELSE <<>>

\* the word /bin/sh reads at the start of s: blanks are skipped, and the
\* word ends before the next blank (the command line quotes nothing)
shell_word(s) ==
    LET solid == {i \in 1..Len(s) : s[i] # " "} IN
    IF solid = {} THEN <<>>
    ELSE LET first == CHOOSE i \in solid : \A j \in solid : i <= j
             blanks == {i \in first..Len(s) : s[i] = " "}
             last == IF blanks = {} THEN Len(s)
                     ELSE (CHOOSE i \in blanks : \A j \in blanks : i <= j) - 1
         IN SubSeq(s, first, last)

\* the file the shell opens for "... %s > %s" % (file_path, minified name)
redirect_target(file_path) == shell_word(get_minified_name(file_path))

----------------------------------------------------------------------------
(* The project tree *)

project_path == <<"/", "p">>
DirJ == path_join(project_path, <<"j">>)
DirC == path_join(project_path, <<"c">>)
AllDirs == {DirJ, DirC}
\* a directory that matches a pattern of .mash but does not exist at startup
DirN == path_join(project_path, <<"n">>)
\* the directories under the project root that match a pattern of .mash
MatchingDirs == AllDirs \cup {DirN}

SrcA == path_join(DirJ, <<"a">> \o EXT_JS)
SrcB == path_join(DirJ, <<"b">> \o EXT_CSS)
SrcC == path_join(DirC, <<"c">> \o EXT_JS)
\* a hidden file, never eligible
Hidden == path_join(DirC, <<".", "h">> \o EXT_JS)

Sources == {SrcA, SrcB, SrcC}
Artifacts == {get_minified_name(s) : s \in Sources}
AllFiles == Sources \cup Artifacts \cup {Hidden}

MASH_ERRORS == path_join(project_path, <<"M", "A", "S", "H", "_", "E", "R", "R", "O", "R", "S">>)

----------------------------------------------------------------------------
(* State *)

VARIABLES
    clock,                  \* what time.time() returns, and the mtime a write leaves
    dirs,                   \* the directories that exist under the project root
    present,                \* the files that exist
    mtime,                  \* os.path.getmtime of each file (0 while it does not exist)
    error_files,            \* the module-level dict: path -> time of the failure
    mash_errors,            \* the file MASH_ERRORS: whether it exists, and its lines
    monitored_directories,  \* ContinualMinifier.monitored_directories
    watched,                \* the directories that carry an inotify watch
    events,                 \* TRUE when inotify has events queued for the handle
    running,                \* FALSE once the process has ended
    exit,                   \* how it ended
    first_run,              \* TRUE inside the first for loop of continually_monitor_files
    pc,                     \* the statement the monitor is at
    dirIdx,                 \* index into monitored_directories of the current directory
    pending,                \* the entries of the current listing still to visit
    cur,                    \* file_path inside minify_and_log
    outcome,                \* what minify(cur) came to
    tool,                   \* the file whose Minifier process is alive, if any
    edits,                  \* how many times the environment has acted
    lastOutcome,            \* history: how the most recent attempt on a source ended
    dirty,                  \* history: sources changed since their last attempt ended
    retouched,              \* history: sources written since their last ledger update
    logTouched,             \* history: update_error_logs has completed at least once
    visited,                \* history: the directories listed since the pass began
    oracle                  \* the input and the answer of a function studied on its own

vars == <<clock, dirs, present, mtime, error_files, mash_errors,
          monitored_directories, watched, events, running, exit, first_run, pc,
          dirIdx, pending, cur, outcome, edits, lastOutcome, dirty, retouched,
          logTouched, tool, visited, oracle>>

fsVars == <<dirs, present, mtime>>
loopVars == <<first_run, pc, dirIdx, pending, cur, outcome>>
histVars == <<lastOutcome, dirty, retouched, logTouched>>

----------------------------------------------------------------------------
(* needs_minifying *)

\* the default of error_files.get(file_path, -1)
NO_ERROR_TIME == -1

\* error_files.get(file_path, -1)
errors_get(table, file_path) ==
    IF file_path \in DOMAIN table THEN table[file_path] ELSE NO_ERROR_TIME

\* needs_minifying without its test of the error table (lines 140-143 left out)
needs_minifying_without_errors(source_edited_time, last_minified, error_time) ==
    IF \E t \in last_minified : t # 0 /\ t > source_edited_time THEN FALSE
    ELSE TRUE

\* needs_minifying without its test of the artifact (lines 136-138 left out)
needs_minifying_without_artifact(source_edited_time, last_minified, error_time) ==
    IF error_time > source_edited_time THEN FALSE
    ELSE TRUE

\* needs_minifying with >= for > in the test of the error table
needs_minifying_error_ge(source_edited_time, last_minified, error_time) ==
    IF \E t \in last_minified : t # 0 /\ t > source_edited_time THEN FALSE
    ELSE IF error_time >= source_edited_time THEN FALSE
    ELSE TRUE

\* The decision of needs_minifying on what it read: the source's mtime, the
\* artifact's mtime (a set: empty when the artifact does not exist, so
\* last_minified_time stays None) and error_files.get(file_path, -1).
\* "last_minified_time and ..." is Python truthiness: None and 0 are false.
needs_minifying_on(source_edited_time, last_minified, error_time) ==
    IF \E t \in last_minified : t # 0 /\ t > source_edited_time THEN FALSE
    ELSE IF error_time > source_edited_time THEN FALSE
    ELSE TRUE

\* what os.path.exists / os.path.getmtime give for the artifact of file_path
last_minified_of(file_path) ==
    IF get_minified_name(file_path) \in present
    THEN {mtime[get_minified_name(file_path)]}
    ELSE {}

needs_minifying(file_path) ==
    needs_minifying_on(mtime[file_path], last_minified_of(file_path),
                       errors_get(error_files, file_path))

----------------------------------------------------------------------------
(* update_error_logs *)

\* the update of the table without the del of line 204
record_outcome_keeps_entry(table, errored, path, now) ==
    IF errored
    THEN [q \in DOMAIN table \cup {path} |-> IF q = path THEN now ELSE table[q]]
    ELSE table

\* the update of the table when it also drops the files that no longer exist
record_outcome_prunes_deleted(table, errored, path, now) ==
    IF errored
    THEN [q \in (DOMAIN table \cap present) \cup {path} |->
            IF q = path THEN now ELSE table[q]]
    ELSE [q \in (DOMAIN table \cap present) \ {path} |-> table[q]]

\* the update of the table when a failure replaces the table by one entry
record_outcome_forgets_others(table, errored, path, now) ==
    IF errored
    THEN [q \in {path} |-> now]
    ELSE [q \in DOMAIN table \ {path} |-> table[q]]

\* lines 199-204: the update of the table
record_outcome(table, errored, path, now) ==
    IF errored
    THEN [q \in DOMAIN table \cup {path} |-> IF q = path THEN now ELSE table[q]]
    ELSE [q \in DOMAIN table \ {path} |-> table[q]]

\* the rewrite of MASH_ERRORS without the os.remove of line 216
persist_log_keeps_file(table, log) ==
    IF DOMAIN table # {}
    THEN [exists |-> TRUE, lines |-> DOMAIN table]
    ELSE log

\* lines 206-216: the rewrite of MASH_ERRORS from the table
persist_log(table, log) ==
    IF DOMAIN table # {}
    THEN [exists |-> TRUE, lines |-> DOMAIN table]
    ELSE IF log.exists
    THEN [exists |-> FALSE, lines |-> {}]
    ELSE log

----------------------------------------------------------------------------
(* Directory listing *)

\* the files directly in a directory
files_in(directory) == {f \in present : dirname(f) = directory}

\* os.listdir gives the entries in an order of the file system's choosing,
\* the same from one listing to the next; the model has it list them by name
NameOrder ==
    << SrcA, get_minified_name(SrcA), SrcB, get_minified_name(SrcB),
       Hidden, SrcC, get_minified_name(SrcC) >>

\* os.walk(directory).next()[2]
listing(directory) ==
    SelectSeq(NameOrder, LAMBDA f : f \in files_in(directory))

\* all_monitored_directories at startup: os.walk visits /p/c before /p/j
\* or after it; the model fixes one order
all_monitored_directories == <<DirJ, DirC>>

----------------------------------------------------------------------------
(* Initial state: the process has built ContinualMinifier and is about to  *)
(* enter the first for loop of continually_monitor_files.                  *)

NoFile == <<>>

\* the values the variable oracle takes outside the specification that uses it
OracleIdle == [src |-> 0, art |-> {}, fail |-> {}, res |-> "unset"]

\* MASH_ERRORS as an earlier run of the program may have left it
StaleLogs ==
    { [exists |-> FALSE, lines |-> {}],
      [exists |-> TRUE, lines |-> {SrcC}] }

Init ==
    /\ clock = 1
    /\ dirs = AllDirs
    /\ present = Sources \cup {Hidden}
    /\ mtime = [f \in AllFiles |-> IF f \in Sources \cup {Hidden} THEN 1 ELSE 0]
    /\ error_files = <<>>
    /\ mash_errors \in StaleLogs
    /\ monitored_directories = all_monitored_directories
    /\ watched = {}
    /\ events = FALSE
    /\ running = TRUE
    /\ exit = "none"
    /\ first_run = TRUE
    /\ pc = "scan"
    /\ dirIdx = 1
    /\ pending = <<>>
    /\ cur = NoFile
    /\ outcome = "none"
    /\ tool = NoFile
    /\ edits = 0
    /\ lastOutcome = [f \in Sources |-> "none"]
    /\ dirty = {}
    /\ retouched = {}
    /\ logTouched = FALSE
    /\ visited = {}
    /\ oracle = OracleIdle

----------------------------------------------------------------------------
(* The file system as the program and the environment change it *)

\* the clock values a step may read: time stands still or has moved to the
\* next value since the last step that read it (only the order of the
\* timestamps matters to the program, so one value at a time is enough)
Now == {t \in {clock, clock + 1} : t <= MaxClock}

\* a write to file f at time now: the file exists, its mtime is now, and a
\* watch on its directory queues IN_CREATE or IN_MODIFY
Write(f, now) ==
    /\ present' = present \cup {f}
    /\ mtime' = [mtime EXCEPT ![f] = now]
    /\ events' = (events \/ dirname(f) \in watched)
    /\ dirs' = dirs

\* the process ends: nothing of the program runs after it
Die(how) ==
    /\ running' = FALSE
    /\ exit' = how

current_directory == monitored_directories[dirIdx]

----------------------------------------------------------------------------
(* minify_all_in_directory *)

\* line 242 on a directory that can be listed
ListDirectory ==
    /\ running /\ pc = "scan"
    /\ current_directory \in dirs
    /\ pending' = listing(current_directory)
    /\ visited' = visited \cup {current_directory}
    /\ pc' = "check"
    /\ UNCHANGED <<clock, fsVars, error_files, mash_errors, monitored_directories,
                   watched, events, running, exit, first_run, dirIdx, cur, outcome,
                   edits, histVars, tool, oracle>>

\* line 242 on a directory that is gone: os.walk swallows the listdir error
\* and yields nothing, so .next() raises StopIteration, which nothing catches
ListMissingDirectory ==
    /\ running /\ pc = "scan"
    /\ current_directory \notin dirs
    /\ Die("StopIteration")
    /\ UNCHANGED <<clock, fsVars, error_files, mash_errors, monitored_directories,
                   watched, events, loopVars, edits, histVars, tool, visited, oracle>>

\* lines 243-245 for an entry that is skipped: not minifiable, or not stale
SkipFile ==
    /\ running /\ pc = "check"
    /\ pending # <<>>
    /\ LET f == Head(pending) IN
        \/ ~is_minifiable(f)
        \/ f \in present /\ ~needs_minifying(f)
    /\ pending' = Tail(pending)
    /\ UNCHANGED <<clock, fsVars, error_files, mash_errors, monitored_directories,
                   watched, events, running, exit, first_run, pc, dirIdx, cur,
                   outcome, edits, histVars, tool, visited, oracle>>

\* lines 243-246 for an entry that is minifiable and stale
SelectFile ==
    /\ running /\ pc = "check"
    /\ pending # <<>>
    /\ is_minifiable(Head(pending))
    /\ Head(pending) \in present
    /\ needs_minifying(Head(pending))
    /\ cur' = Head(pending)
    /\ pending' = Tail(pending)
    /\ pc' = "launch"
    /\ UNCHANGED <<clock, fsVars, error_files, mash_errors, monitored_directories,
                   watched, events, running, exit, first_run, dirIdx, outcome,
                   edits, histVars, tool, visited, oracle>>

\* line 128 on a listed file that has been deleted since: os.path.getmtime
\* raises OSError, which nothing catches
StatMissingFile ==
    /\ running /\ pc = "check"
    /\ pending # <<>>
    /\ is_minifiable(Head(pending))
    /\ Head(pending) \notin present
    /\ pending' = Tail(pending)
    /\ Die("OSError")
    /\ UNCHANGED <<clock, fsVars, error_files, mash_errors, monitored_directories,
                   watched, events, first_run, pc, dirIdx, cur, outcome, edits,
                   histVars, tool, visited, oracle>>

\* after_directory with the for loop of lines 288-289 left after one directory
after_directory_ends_pass ==
    IF first_run THEN "watch"
    ELSE "wait"

\* the statement after minify_all_in_directory(directory) has returned
after_directory ==
    IF first_run THEN "watch"
    ELSE IF dirIdx < Len(monitored_directories) THEN "scan"
    ELSE "wait"

\* the for loop of minify_all_in_directory is exhausted
EndDirectory ==
    /\ running /\ pc = "check"
    /\ pending = <<>>
    /\ pc' = after_directory
    /\ dirIdx' = IF after_directory = "scan" THEN dirIdx + 1 ELSE dirIdx
    /\ UNCHANGED <<clock, fsVars, error_files, mash_errors, monitored_directories,
                   watched, events, running, exit, first_run, pending, cur, outcome,
                   edits, lastOutcome, dirty, retouched, logTouched,
                   tool, visited, oracle>>

----------------------------------------------------------------------------
(* minify: the command line is run through the shell (shell=True) with its *)
(* output redirected to the artifact.  Popen returns as soon as the shell  *)
(* is started; p.stderr.read() returns when the shell and the tool have    *)
(* closed stderr, that is when they have ended.                            *)

\* lines 179-185: Popen itself raises OSError (the shell cannot be spawned);
\* minify prints and calls sys.exit()
PopenFails ==
    /\ running /\ pc = "launch"
    /\ Die("SystemExit")
    /\ lastOutcome' = [lastOutcome EXCEPT ![cur] = "oserror"]
    /\ UNCHANGED <<clock, fsVars, error_files, mash_errors, monitored_directories,
                   watched, events, loopVars, edits, dirty, retouched, logTouched, tool, visited, oracle>>

\* except MinifyFailed (line 236) is what keeps a failure inside minify_and_log
catches_nothing == FALSE
catches_MinifyFailed == TRUE

\* the shell opens "> artifact" as soon as Popen has started it: the artifact
\* is created or truncated whatever the tool then does (when its directory
\* exists)
ShellRedirects ==
    IF dirname(cur) \in dirs
    THEN Write(redirect_target(cur), clock)
    ELSE UNCHANGED <<fsVars, events>>

\* line 187, p.stderr.read(), is what makes minify wait for the tool
returns_at_once == FALSE
reads_stderr == TRUE

\* lines 179-181: Popen starts the shell, which opens the redirect; minify
\* goes on to line 187 (without it, it would return with the tool running)
Popen ==
    /\ running /\ pc = "launch"
    /\ ShellRedirects
    /\ tool' = cur
    /\ IF reads_stderr
       THEN /\ pc' = "read"
            /\ UNCHANGED <<outcome, lastOutcome, dirty>>
       ELSE /\ pc' = "record"
            /\ outcome' = "ok"
            /\ lastOutcome' = [lastOutcome EXCEPT ![cur] = "ok"]
            /\ dirty' = dirty \ {cur}
    /\ UNCHANGED <<clock, error_files, mash_errors, monitored_directories, watched,
                   running, exit, first_run, dirIdx, pending, cur, edits, retouched,
                   logTouched, visited, oracle>>

\* p.stderr.read() has returned: the tool has ended and the attempt on cur
\* is over
AttemptEnds(result) ==
    /\ tool' = NoFile
    /\ outcome' = result
    /\ lastOutcome' = [lastOutcome EXCEPT ![cur] = IF result = "ok" THEN "ok" ELSE "failed"]
    /\ dirty' = dirty \ {cur}
    /\ IF result = "ok" \/ catches_MinifyFailed
       THEN /\ pc' = "record"
            /\ UNCHANGED <<running, exit>>
       ELSE /\ pc' = pc
            /\ Die("MinifyFailed")

\* line 187 reads an empty stderr: the tool has written the artifact
ToolSucceeds ==
    /\ running /\ pc = "read"
    /\ cur \in present
    /\ \E now \in Now :
        /\ clock' = now
        /\ Write(redirect_target(cur), now)
    /\ AttemptEnds("ok")
    /\ UNCHANGED <<error_files, mash_errors, monitored_directories, watched,
                   first_run, dirIdx, pending, cur, edits, retouched, logTouched, visited,
                   oracle>>

\* lines 187-189: the tool ran and wrote diagnostics to stderr
ToolReportsError ==
    /\ running /\ pc = "read"
    /\ AttemptEnds("stderr")
    /\ UNCHANGED <<clock, fsVars, events, error_files, mash_errors,
                   monitored_directories, watched, first_run, dirIdx, pending, cur,
                   edits, retouched, logTouched, visited, oracle>>

\* lines 187-189: the tool could not be started; Popen succeeded because it
\* started the shell, and the shell's "not found" is on stderr
ToolNotStarted ==
    /\ running /\ pc = "read"
    /\ AttemptEnds("notfound")
    /\ UNCHANGED <<clock, fsVars, events, error_files, mash_errors,
                   monitored_directories, watched, first_run, dirIdx, pending, cur,
                   edits, retouched, logTouched, visited, oracle>>

----------------------------------------------------------------------------
(* update_error_logs, called by minify_and_log with errored = (outcome # ok) *)

\* lines 199-204; time.time() is read on the errored branch only
UpdateTable ==
    /\ running /\ pc = "record"
    /\ IF outcome # "ok"
       THEN \E now \in Now :
               /\ clock' = now
               /\ error_files' = record_outcome(error_files, TRUE, cur, now)
       ELSE /\ clock' = clock
            /\ error_files' = record_outcome(error_files, FALSE, cur, clock)
    /\ retouched' = retouched \ {cur}
    /\ pc' = "persist"
    /\ UNCHANGED <<fsVars, mash_errors, monitored_directories, watched,
                   events, running, exit, first_run, dirIdx, pending, cur, outcome,
                   edits, lastOutcome, dirty, logTouched,
                   tool, visited, oracle>>

\* lines 206-216, then back in the for loop of minify_all_in_directory
WriteLog ==
    /\ running /\ pc = "persist"
    /\ mash_errors' = persist_log(error_files, mash_errors)
    /\ logTouched' = TRUE
    /\ pc' = "check"
    /\ cur' = NoFile
    /\ outcome' = "none"
    /\ UNCHANGED <<clock, fsVars, error_files, monitored_directories, watched,
                   events, running, exit, first_run, dirIdx, pending, edits,
                   lastOutcome, dirty, retouched, tool, visited, oracle>>

----------------------------------------------------------------------------
(* ContinualMinifier.continually_monitor_files *)

\* line 284 and the next iteration of the first for loop (or its end)
WatchDirectory ==
    /\ running /\ pc = "watch"
    /\ current_directory \in dirs
    /\ watched' = watched \cup {current_directory}
    /\ IF dirIdx < Len(monitored_directories)
       THEN /\ dirIdx' = dirIdx + 1
            /\ pc' = "scan"
            /\ first_run' = first_run
       ELSE /\ dirIdx' = dirIdx
            /\ pc' = "wait"
            /\ first_run' = FALSE
    /\ UNCHANGED <<clock, fsVars, error_files, mash_errors, monitored_directories,
                   events, running, exit, pending, cur, outcome, edits, lastOutcome,
                   dirty, retouched, logTouched, tool, visited, oracle>>

\* line 284 on a directory that is gone: inotifyx.add_watch raises IOError
WatchMissingDirectory ==
    /\ running /\ pc = "watch"
    /\ current_directory \notin dirs
    /\ Die("IOError")
    /\ UNCHANGED <<clock, fsVars, error_files, mash_errors, monitored_directories,
                   watched, events, loopVars, edits, histVars, tool, visited, oracle>>

\* what all_monitored_directories would yield now (as the polling loop of
\* lines 249-253 asks at every cycle)
walk_again ==
    SelectSeq(<<DirJ, DirC, DirN>>, LAMBDA d : d \in dirs)

\* line 288: the pass goes through the list built by __init__
directories_of_pass == monitored_directories

\* line 287 returns the queued events; lines 288-289 start a pass
GetEvents ==
    /\ running /\ pc = "wait"
    /\ events
    /\ events' = FALSE
    /\ monitored_directories' = directories_of_pass
    /\ dirIdx' = 1
    /\ pc' = "scan"
    /\ visited' = {}
    /\ UNCHANGED <<clock, fsVars, error_files, mash_errors,
                   watched, running, exit, first_run, pending, cur, outcome, edits,
                   histVars, tool, oracle>>

\* SIGINT: Python raises KeyboardInterrupt in the main thread at whatever
\* statement it is executing; lines 326-327 catch it and the process ends
Interrupt ==
    /\ running
    /\ Die("KeyboardInterrupt")
    /\ UNCHANGED <<clock, fsVars, error_files, mash_errors, monitored_directories,
                   watched, events, loopVars, edits, histVars, tool, visited, oracle>>

----------------------------------------------------------------------------
(* The environment *)

\* somebody saves a source file
EditSource ==
    /\ running
    /\ edits < MaxEdits
    /\ \E f \in Sources :
        /\ dirname(f) \in dirs
        /\ \E now \in Now :
            /\ clock' = now
            /\ Write(f, now)
        /\ dirty' = dirty \cup {f}
        /\ retouched' = retouched \cup {f}
    /\ edits' = edits + 1
    /\ UNCHANGED <<error_files, mash_errors, monitored_directories, watched,
                   running, exit, loopVars, lastOutcome, logTouched, tool, visited, oracle>>

\* somebody deletes a source file (the watches do not ask for IN_DELETE)
DeleteSource ==
    /\ running
    /\ edits < MaxEdits
    /\ \E f \in Sources \cap present :
        /\ present' = present \ {f}
        /\ mtime' = [mtime EXCEPT ![f] = 0]
        /\ dirty' = dirty \cup {f}
    /\ edits' = edits + 1
    /\ UNCHANGED <<clock, dirs, error_files, mash_errors, monitored_directories,
                   watched, events, running, exit, loopVars, lastOutcome, retouched,
                   logTouched, tool, visited, oracle>>

\* somebody removes a directory with what is in it; the kernel drops its
\* watch and queues IN_IGNORED
RemoveDirectory ==
    /\ running
    /\ edits < MaxEdits
    /\ \E d \in dirs :
        /\ dirs' = dirs \ {d}
        /\ present' = present \ files_in(d)
        /\ mtime' = [f \in AllFiles |-> IF f \in files_in(d) THEN 0 ELSE mtime[f]]
        /\ dirty' = dirty \cup (Sources \cap files_in(d))
        /\ watched' = watched \ {d}
        /\ events' = (events \/ d \in watched)
    /\ edits' = edits + 1
    /\ UNCHANGED <<clock, error_files, mash_errors, monitored_directories,
                   running, exit, loopVars, lastOutcome, retouched, logTouched, tool, visited, oracle>>

\* somebody creates a directory that matches a pattern: an empty directory
\* directly under the project root, which carries no watch
CreateDirectory ==
    /\ running
    /\ edits < MaxEdits
    /\ \E d \in MatchingDirs \ dirs :
        dirs' = dirs \cup {d}
    /\ edits' = edits + 1
    /\ UNCHANGED <<clock, present, mtime, error_files, mash_errors,
                   monitored_directories, watched, events, running, exit, loopVars,
                   histVars, tool, visited, oracle>>

----------------------------------------------------------------------------

Next ==
    \/ ListDirectory
    \/ ListMissingDirectory
    \/ SkipFile
    \/ SelectFile
    \/ StatMissingFile
    \/ EndDirectory
    \/ PopenFails
    \/ Popen
    \/ ToolSucceeds
    \/ ToolReportsError
    \/ ToolNotStarted
    \/ UpdateTable
    \/ WriteLog
    \/ WatchDirectory
    \/ WatchMissingDirectory
    \/ GetEvents
    \/ Interrupt
    \/ EditSource
    \/ DeleteSource
    \/ RemoveDirectory
    \/ CreateDirectory

Spec == Init /\ [][Next]_vars

\* the steps of the program itself: while it runs and is not blocked in
\* get_events, the interpreter goes on to its next statement, and a tool that
\* was started ends
MonitorStep ==
    \/ ListDirectory
    \/ ListMissingDirectory
    \/ SkipFile
    \/ SelectFile
    \/ StatMissingFile
    \/ EndDirectory
    \/ PopenFails
    \/ Popen
    \/ ToolSucceeds
    \/ ToolReportsError
    \/ ToolNotStarted
    \/ UpdateTable
    \/ WriteLog
    \/ WatchDirectory
    \/ WatchMissingDirectory
    \/ GetEvents

\* the same program, which does not halt between two statements; nothing is
\* asked of the environment or of SIGINT
SpecLive == Init /\ [][Next]_vars /\ WF_vars(MonitorStep)

----------------------------------------------------------------------------
(* needs_minifying on its own: every timestamp triple of a small range     *)

OracleTimes == (0 - MaxOracleTime)..MaxOracleTime

\* a set with no element stands for "absent"
OptionalTimes == {{}} \cup {{t} : t \in OracleTimes}

\* error_files as it is when the file has the given failure time, or none
OracleTable(fail) ==
    IF fail = {} THEN <<>> ELSE [q \in {SrcA} |-> CHOOSE t \in fail : TRUE]

OracleInit ==
    /\ oracle \in [src : OracleTimes, art : OptionalTimes, fail : OptionalTimes,
                   res : {"unset"}]
    /\ clock = 1
    /\ dirs = AllDirs
    /\ present = Sources \cup {Hidden}
    /\ mtime = [f \in AllFiles |-> IF f \in Sources \cup {Hidden} THEN 1 ELSE 0]
    /\ error_files = <<>>
    /\ mash_errors = [exists |-> FALSE, lines |-> {}]
    /\ monitored_directories = all_monitored_directories
    /\ watched = {}
    /\ events = FALSE
    /\ running = FALSE
    /\ exit = "none"
    /\ first_run = TRUE
    /\ pc = "scan"
    /\ dirIdx = 1
    /\ pending = <<>>
    /\ cur = NoFile
    /\ outcome = "none"
    /\ tool = NoFile
    /\ edits = 0
    /\ lastOutcome = [f \in Sources |-> "none"]
    /\ dirty = {}
    /\ retouched = {}
    /\ logTouched = FALSE
    /\ visited = {}

\* needs_minifying(SrcA) with the triple as what it reads
OracleApply ==
    /\ oracle.res = "unset"
    /\ oracle' = [oracle EXCEPT !.res =
                    IF needs_minifying_on(oracle.src, oracle.art,
                                          errors_get(OracleTable(oracle.fail), SrcA))
                    THEN "true" ELSE "false"]
    /\ UNCHANGED <<clock, fsVars, error_files, mash_errors, monitored_directories,
                   watched, events, running, exit, loopVars, edits, histVars, tool, visited>>

OracleNext == OracleApply

SpecOracle == OracleInit /\ [][OracleNext]_vars

----------------------------------------------------------------------------
(* get_paths_from_configuration on its own: every text over a small        *)
(* alphabet, up to a small length                                          *)

\* the monitor's variables while a function is studied on its own
MonitorIdle ==
    /\ clock = 1
    /\ dirs = AllDirs
    /\ present = Sources \cup {Hidden}
    /\ mtime = [f \in AllFiles |-> IF f \in Sources \cup {Hidden} THEN 1 ELSE 0]
    /\ error_files = <<>>
    /\ mash_errors = [exists |-> FALSE, lines |-> {}]
    /\ monitored_directories = all_monitored_directories
    /\ watched = {}
    /\ events = FALSE
    /\ running = FALSE
    /\ exit = "none"
    /\ first_run = TRUE
    /\ pc = "scan"
    /\ dirIdx = 1
    /\ pending = <<>>
    /\ cur = NoFile
    /\ outcome = "none"
    /\ tool = NoFile
    /\ edits = 0
    /\ lastOutcome = [f \in Sources |-> "none"]
    /\ dirty = {}
    /\ retouched = {}
    /\ logTouched = FALSE
    /\ visited = {}

\* what str.strip() removes
Whitespace == {" ", "\t", "\r", "\n"}

\* str.strip()
strip(s) ==
    LET kept == {i \in 1..Len(s) : s[i] \notin Whitespace} IN
    IF kept = {} THEN <<>>
    ELSE SubSeq(s, CHOOSE i \in kept : \A j \in kept : i <= j,
                   CHOOSE i \in kept : \A j \in kept : i >= j)

\* str.split('\n'): always at least one piece
RECURSIVE split_lines(_)
split_lines(s) ==
    IF \A i \in 1..Len(s) : s[i] # "\n" THEN <<s>>
    ELSE LET i == CHOOSE k \in 1..Len(s) :
                    s[k] = "\n" /\ \A j \in 1..(k - 1) : s[j] # "\n"
         IN <<SubSeq(s, 1, i - 1)>> \o split_lines(SubSeq(s, i + 1, Len(s)))

\* str.replace('\\', '/')
replace_backslashes(s) == [i \in 1..Len(s) |-> IF s[i] = "\\" THEN "/" ELSE s[i]]

\* os.path.join(a, b) on posix: an absolute b discards a
os_path_join(a, b) ==
    IF startswith(b, <<"/">>) THEN b
    ELSE IF a = <<>> \/ endswith(a, <<"/">>) THEN a \o b
    ELSE a \o <<"/">> \o b

get_path_regexp(root, relative_regexp) ==
    <<"^">> \o replace_backslashes(os_path_join(root, relative_regexp)) \o <<"$">>

\* lines 51-57 without the test of line 52: a line ending in '/' is kept
line_patterns_keeps_slash(root, line) ==
    IF line # <<>> /\ ~startswith(line, <<"#">>)
    THEN <<get_path_regexp(root, line)>>
    ELSE <<>>

\* lines 51-57: what one stripped line appends to path_regexps
line_patterns(root, line) ==
    IF line # <<>> /\ ~startswith(line, <<"#">>)
    THEN IF endswith(line, <<"/">>)
         THEN <<>>
         ELSE <<get_path_regexp(root, line)>>
    ELSE <<>>

\* the for loop of lines 48-57 over the lines still to read
RECURSIVE patterns_of_lines(_, _)
patterns_of_lines(root, lines) ==
    IF lines = <<>> THEN <<>>
    ELSE line_patterns(root, strip(Head(lines)))
            \o patterns_of_lines(root, Tail(lines))

get_paths_from_configuration(root, configuration_file) ==
    patterns_of_lines(root, split_lines(configuration_file))

\* the characters configuration texts are made of
ConfigChars == {"a", "b", "#", "/", " ", "\n"}

ConfigTexts == UNION {[1..n -> ConfigChars] : n \in 0..MaxConfigLen}

ConfigInit ==
    /\ oracle \in [text : ConfigTexts, done : {FALSE}, path_regexps : {<<>>}]
    /\ MonitorIdle

ConfigApply ==
    /\ ~oracle.done
    /\ oracle' = [oracle EXCEPT
                    !.done = TRUE,
                    !.path_regexps =
                        get_paths_from_configuration(project_path, oracle.text)]
    /\ UNCHANGED <<clock, fsVars, error_files, mash_errors, monitored_directories,
                   watched, events, running, exit, loopVars, edits, histVars, tool, visited>>

ConfigNext == ConfigApply

SpecConfig == ConfigInit /\ [][ConfigNext]_vars

----------------------------------------------------------------------------
(* is_minifiable and get_minified_name on their own, as the body of the    *)
(* for loop of minify_all_in_directory uses them on one listed entry       *)

\* the pieces probe paths are made of
NameTokens ==
    { <<"a">>, <<".">>, <<"/">>, <<" ">>, <<"j", "s">>, <<"m", "i", "n">>,
      EXT_JS, EXT_CSS, DOT_MIN }

RECURSIVE Concat(_)
Concat(pieces) ==
    IF pieces = <<>> THEN <<>> ELSE Head(pieces) \o Concat(Tail(pieces))

ProbePaths == {Concat(ts) : ts \in UNION {[1..n -> NameTokens] : n \in 1..MaxNameTokens}}

\* file_path is the entry; stale is what needs_minifying would say of it
NamesInit ==
    /\ oracle \in [file_path : ProbePaths, stale : BOOLEAN, done : {FALSE},
                   minifiable : {FALSE}, checked : {FALSE}, invoked : {FALSE},
                   minified_name : {<<>>}, written : {<<>>}]
    /\ MonitorIdle

\* lines 245-246 on the entry: "and" evaluates needs_minifying only when
\* is_minifiable is true, and minify_and_log is called only when both are;
\* minify then runs "... > get_minified_name(file_path)" through the shell,
\* and written is the file the output goes to
NamesApply ==
    /\ ~oracle.done
    /\ oracle' = [oracle EXCEPT
                    !.done = TRUE,
                    !.minifiable = is_minifiable(oracle.file_path),
                    !.checked = is_minifiable(oracle.file_path),
                    !.invoked = is_minifiable(oracle.file_path) /\ oracle.stale,
                    !.minified_name =
                        IF is_minifiable(oracle.file_path) /\ oracle.stale
                        THEN get_minified_name(oracle.file_path)
                        ELSE <<>>,
                    !.written =
                        IF is_minifiable(oracle.file_path) /\ oracle.stale
                        THEN redirect_target(oracle.file_path)
                        ELSE <<>>]
    /\ UNCHANGED <<clock, fsVars, error_files, mash_errors, monitored_directories,
                   watched, events, running, exit, loopVars, edits, histVars, tool, visited>>

NamesNext == NamesApply

SpecNames == NamesInit /\ [][NamesNext]_vars

----------------------------------------------------------------------------
(* Properties *)

\* MASH_ERRORS says what the table says
LedgerOnDisk ==
    /\ mash_errors.exists <=> (DOMAIN error_files # {})
    /\ mash_errors.exists => mash_errors.lines = DOMAIN error_files

\* the monitor is between two files: no Minifier is at work and no update of
\* the table or of MASH_ERRORS is under way
BetweenFiles == running /\ pc \notin {"read", "record", "persist"}

Artifact(f) == get_minified_name(f)

\* the monitor has chosen cur and is about to run the Minifier on it
Invoking == running /\ pc = "launch"

\* C1: once update_error_logs has been called, and outside a call of it,
\* MASH_ERRORS exists iff error_files is non-empty, and then its lines are
\* exactly the keys of error_files.
C1_LedgerDiskConsistent ==
    (logTouched /\ pc # "persist") => LedgerOnDisk

C1_Witness ==
    /\ logTouched /\ pc = "check"
    /\ mash_errors.exists
    /\ \E f, g \in Sources : lastOutcome[f] = "ok" /\ lastOutcome[g] = "failed"

\* C2: between two files of the monitor loop, a path is a key of error_files
\* iff it has been attempted and its most recent attempt raised MinifyFailed.
C2_LedgerIffLastFailed ==
    BetweenFiles =>
        /\ DOMAIN error_files \subseteq Sources
        /\ \A f \in Sources : f \in DOMAIN error_files <=> lastOutcome[f] = "failed"

C2_Witness ==
    /\ BetweenFiles /\ pc = "wait"
    /\ \E f \in Sources : lastOutcome[f] = "ok"
    /\ \E g \in Sources : lastOutcome[g] = "failed"

\* C3 (as claimed): needs_minifying is false exactly when the artifact time is
\* present and greater than the source time, or the failure time is present
\* and greater than the source time.
C3_DecisionTable ==
    oracle.res # "unset" =>
        (oracle.res = "false" <=>
            \/ \E t \in oracle.art : t > oracle.src
            \/ \E t \in oracle.fail : t > oracle.src)

VisitsNext == pc = "check" /\ pending # <<>> /\ pending' = Tail(pending)

\* C6: between two files a failing file is listed in MASH_ERRORS; a failing
\* file whose source was written after the failure was recorded is attempted
\* when a pass next reaches it; and when update_error_logs returns after a
\* success the file is in neither the table nor MASH_ERRORS, which does not
\* exist when the table is empty.
C6_FailureThenRecovery ==
    /\ [](BetweenFiles =>
            \A f \in Sources :
                lastOutcome[f] = "failed" =>
                    mash_errors.exists /\ f \in mash_errors.lines)
    /\ [][(/\ running
           /\ VisitsNext
           /\ Head(pending) \in DOMAIN error_files \cap retouched \cap present)
            => (pc' = "launch" /\ cur' = Head(pending))]_vars
    /\ [][(pc = "persist" /\ outcome = "ok" /\ pc' = "check")
            => /\ cur \notin DOMAIN error_files'
               /\ cur \notin mash_errors'.lines
               /\ (DOMAIN error_files' = {} => ~mash_errors'.exists)]_vars

\* a file that failed, was written afterwards, has been attempted again with
\* success and was the only failing one
C6_Witness ==
    /\ running /\ pc = "record" /\ outcome = "ok"
    /\ DOMAIN error_files = {cur}
    /\ cur \in retouched
    /\ mash_errors.exists

\* C7: a MinifyFailed does not end the process or the pass: the attempt that
\* raised it is followed by the table update and the rewrite, after which
\* the for loop goes on with the same remaining listing in the same
\* directory; the listing is only ever consumed one entry at a time, and a
\* pass is over only when every directory has been gone through.
C7_FailureIsolation ==
    /\ [][(pc = "read" /\ outcome' \in {"stderr", "notfound"})
            => /\ running' /\ pc' = "record"
               /\ pending' = pending /\ dirIdx' = dirIdx]_vars
    /\ [][(pc = "persist" /\ pc' # "persist")
            => /\ running' /\ pc' = "check"
               /\ pending' = pending /\ dirIdx' = dirIdx]_vars
    /\ [][(pc = "check" /\ pending # <<>> /\ running')
            => (pending' = pending \/ pending' = Tail(pending))]_vars
    /\ [](pc = "wait" =>
            pending = <<>> /\ dirIdx = Len(monitored_directories))

\* both files of the first directory have failed in the first pass, and the
\* file of the second directory is being attempted in it
C7_Witness ==
    /\ running /\ first_run
    /\ pc = "launch" /\ cur = SrcC
    /\ \A f \in {SrcA, SrcB} : lastOutcome[f] = "failed"

\* C8 (as claimed): the process never ends on an interrupt with the table
\* changed by an outcome and MASH_ERRORS not yet rewritten to match: once
\* update_error_logs has brought the two together, an interrupted process
\* leaves them together.
C8_InterruptLeavesLedgerWritten ==
    (exit = "KeyboardInterrupt" /\ logTouched) => LedgerOnDisk

\* C9 (as claimed): a watched directory that cannot be listed is skipped; the
\* process does not end on it.
C9_UnlistableDirectorySkipped ==
    exit # "StopIteration"

\* C10 (as claimed): when the tool cannot be started the process ends, and
\* the file is not recorded as failing.
C10_ToolUnavailableIsFatal ==
    outcome = "notfound" =>
        /\ ~running
        /\ exit = "SystemExit"
        /\ cur \notin DOMAIN error_files

\* the lines of a text that the claim counts: after trimming not blank, not
\* a comment, not ending in '/'
CountedLines(text) ==
    SelectSeq(split_lines(text),
              LAMBDA l : /\ strip(l) # <<>>
                         /\ strip(l)[1] # "#"
                         /\ strip(l)[Len(strip(l))] # "/")

\* C11: get_paths_from_configuration gives one pattern for each line that
\* after trimming is not blank, does not start with '#' and does not end in
\* '/', in the order of the lines, and nothing for any other line; so as many
\* patterns as such lines, and none for a text of blank and comment lines.
C11_OnePatternPerEligibleLine ==
    oracle.done =>
        /\ Len(oracle.path_regexps) = Len(CountedLines(oracle.text))
        /\ \A i \in 1..Len(oracle.path_regexps) :
              oracle.path_regexps[i] =
                  get_path_regexp(project_path, strip(CountedLines(oracle.text)[i]))
        /\ (CountedLines(oracle.text) = <<>> => oracle.path_regexps = <<>>)

\* a comment between two different patterns
C11_Witness ==
    /\ oracle.done
    /\ oracle.text = <<"a", "\n", "#", "\n", "b">>
    /\ oracle.path_regexps = << <<"^", "/", "p", "/", "a", "$">>,
                                <<"^", "/", "p", "/", "b", "$">> >>

\* the last component of a path: what follows its last '/'
FileName(path) ==
    CHOOSE n \in {SubSeq(path, k, Len(path)) : k \in 1..(Len(path) + 1)} :
        /\ \A i \in 1..Len(n) : n[i] # "/"
        /\ (Len(n) = Len(path) \/ path[Len(path) - Len(n)] = "/")

HasSuffix(n, x) == \E pre \in {SubSeq(n, 1, k) : k \in 0..Len(n)} : n = pre \o x

\* eligibility as the claim words it
EligibleName(path) ==
    /\ HasSuffix(FileName(path), <<".", "j", "s">>)
            \/ HasSuffix(FileName(path), <<".", "c", "s", "s">>)
    /\ ~(FileName(path) # <<>> /\ FileName(path)[1] = ".")
    /\ ~HasSuffix(FileName(path), <<".", "m", "i", "n", ".", "j", "s">>)
    /\ ~HasSuffix(FileName(path), <<".", "m", "i", "n", ".", "c", "s", "s">>)

\* C12: is_minifiable is true of a path iff its file name ends in '.js' or
\* '.css', does not start with '.', and does not end in '.min.js' or
\* '.min.css'; and the loop body staleness-checks an entry, or passes it to
\* the Minifier, only if the entry satisfies this.
C12_EligibleIffName ==
    oracle.done =>
        /\ oracle.minifiable <=> EligibleName(oracle.file_path)
        /\ oracle.checked => EligibleName(oracle.file_path)
        /\ oracle.invoked => EligibleName(oracle.file_path)

\* a file called min.js, which is a source and not an artifact, has been
\* passed to the Minifier
C12_Witness ==
    /\ oracle.done /\ oracle.invoked
    /\ oracle.file_path = <<"/", "m", "i", "n", ".", "j", "s">>

\* C13: a Minifier process is alive only while minify waits for it; the
\* four stages of a file follow one another (Minifier call, its end, table
\* update, rewrite of MASH_ERRORS) on the same file; the for loop looks at
\* the next listed entry only when no file is in progress, no Minifier is
\* alive and MASH_ERRORS agrees with the table; and a pass starts only from
\* the blocking get_events, when the previous pass has gone through its last
\* directory and has nothing left to visit.
C13_OneFileAtATime ==
    /\ [](tool # NoFile => (pc = "read" /\ tool = cur))
    /\ [][(pc = "launch" /\ pc' # pc) => (pc' = "read" /\ cur' = cur)]_vars
    /\ [][(pc = "read" /\ pc' # pc) => (pc' = "record" /\ cur' = cur)]_vars
    /\ [][(pc = "record" /\ pc' # pc) => (pc' = "persist" /\ cur' = cur)]_vars
    /\ [][(pc = "persist" /\ pc' # pc) => (pc' = "check" /\ cur' = NoFile)]_vars
    /\ [][VisitsNext =>
            /\ cur = NoFile /\ outcome = "none" /\ tool = NoFile
            /\ (logTouched => LedgerOnDisk)]_vars
    /\ [][(pc' = "scan" /\ dirIdx' = 1 /\ ~(pc = "scan" /\ dirIdx = 1)) =>
            /\ pc = "wait" /\ pending = <<>>
            /\ cur = NoFile /\ tool = NoFile
            /\ dirIdx = Len(monitored_directories)]_vars

\* in a pass after the first, the Minifier runs on the second file of a
\* directory after the failure of the first has been recorded and written
C13_Witness ==
    /\ running /\ ~first_run
    /\ pc = "read" /\ tool = SrcB
    /\ lastOutcome[SrcA] = "failed"
    /\ SrcA \in mash_errors.lines

\* the watched-directory set
MonitoredSet == {monitored_directories[i] : i \in 1..Len(monitored_directories)}

\* C14: the loop leaves get_events only with events delivered, and then
\* starts a pass at the first directory, whatever the events were about;
\* directories are gone through in turn, each one being listed; and whenever
\* the loop blocks, every directory of the set has been listed since the pass
\* began.
C14_EventStartsFullPass ==
    /\ [][(pc = "wait" /\ pc' # "wait")
            => (events /\ pc' = "scan" /\ dirIdx' = 1 /\ visited' = {})]_vars
    /\ [][(dirIdx' # dirIdx /\ dirIdx' # 1)
            => (dirIdx' = dirIdx + 1 /\ current_directory \in visited)]_vars
    /\ [][(pc = "scan" /\ pc' # "scan")
            => (pending' = listing(current_directory)
                /\ current_directory \in visited')]_vars
    /\ [](pc = "wait" => visited = MonitoredSet)

\* the only change made to the tree is a write to the source of the second
\* directory, and a later pass is going through the first directory
C14_Witness ==
    /\ running /\ ~first_run
    /\ pc = "check" /\ current_directory = DirJ
    /\ dirty = {SrcC} /\ mtime[SrcC] > mtime[SrcA]
    /\ edits = 1

\* C15: no step changes monitored_directories; a matching directory that
\* did not exist at startup is never in the set, never watched and never
\* listed; and a directory of the set stays in it when it is removed.
C15_WatchedSetFixed ==
    /\ [][monitored_directories' = monitored_directories]_vars
    /\ [](MonitoredSet = AllDirs)
    /\ [](DirN \notin watched /\ DirN \notin visited)

\* the new directory was created during the first pass; the pass has ended
\* with a watch on every directory of the set and none on the new one, and
\* the loop is blocked
C15_Witness ==
    /\ running /\ ~first_run /\ pc = "wait"
    /\ DirN \in dirs
    /\ visited = AllDirs /\ watched = AllDirs

\* the step of update_error_logs that changes the table (lines 199-204)
TableStep == pc = "record" /\ pc' = "persist"

\* C16: the table changes only in update_error_logs, and there only at
\* path: after a success path is not a key (and the table is as it was when
\* path was not a key), after a failure path maps to the time just read, and
\* every other path is a key after iff it was before, with the same time.
C16_OnlyOwnEntryChanges ==
    /\ [][error_files' # error_files => TableStep]_vars
    /\ [][TableStep =>
            /\ \A q \in (DOMAIN error_files \cup DOMAIN error_files') \ {cur} :
                  /\ q \in DOMAIN error_files /\ q \in DOMAIN error_files'
                  /\ error_files'[q] = error_files[q]
            /\ outcome = "ok" => cur \notin DOMAIN error_files'
            /\ (outcome = "ok" /\ cur \notin DOMAIN error_files)
                  => error_files' = error_files
            /\ outcome # "ok" =>
                  (cur \in DOMAIN error_files' /\ error_files'[cur] = clock')]_vars

\* a failure has just been recorded beside an older entry of another file
C16_Witness ==
    /\ running /\ pc = "persist" /\ outcome = "stderr"
    /\ \E q \in DOMAIN error_files \ {cur} : error_files[q] < error_files[cur]

\* C17 (as claimed): when the Minifier is invoked on an eligible entry, the
\* artifact name is not eligible and determines the source (taking '.min'
\* out of it gives the source back, so two sources never share an artifact),
\* and the file the output goes to is that artifact: not a file a pass would
\* minify, not the source, and not the artifact of another source.
C17_ArtifactNeverSource ==
    (oracle.done /\ oracle.invoked) =>
        /\ ~EligibleName(oracle.minified_name)
        /\ \E ext \in {EXT_JS, EXT_CSS} :
              /\ HasSuffix(oracle.minified_name, DOT_MIN \o ext)
              /\ SubSeq(oracle.minified_name, 1,
                        Len(oracle.minified_name) - Len(DOT_MIN \o ext)) \o ext
                    = oracle.file_path
        /\ ~EligibleName(oracle.written)
        /\ oracle.written # oracle.file_path
        /\ oracle.written = oracle.minified_name

\* C18: a path stops being a key of error_files only in the table update
\* that follows a successful minification of that path; once
\* update_error_logs has written MASH_ERRORS, a line leaves it only in the
\* rewrite that follows such a success; only a file that exists is chosen for
\* an attempt, or minified with success; and between files a failing file
\* that no longer exists is still a key and still a line of MASH_ERRORS.
C18_EntryLeavesOnlyOnSuccess ==
    /\ [][\A q \in DOMAIN error_files \ DOMAIN error_files' :
            /\ pc = "record" /\ outcome = "ok" /\ cur = q
            /\ lastOutcome[q] = "ok"]_vars
    /\ [][logTouched =>
            \A q \in mash_errors.lines \ mash_errors'.lines :
                pc = "persist" /\ outcome = "ok" /\ cur = q]_vars
    /\ [][(pc = "check" /\ pc' = "launch") => cur' \in present]_vars
    /\ [][(pc = "read" /\ outcome' = "ok") => cur \in present]_vars
    /\ [](BetweenFiles =>
            \A q \in Sources \ present :
                lastOutcome[q] = "failed" =>
                    /\ q \in DOMAIN error_files
                    /\ q \in mash_errors.lines)

\* the first file failed and was then deleted; the pass has gone on to
\* minify a file of the other directory, and the loop is blocked
C18_Witness ==
    /\ running /\ pc = "wait"
    /\ SrcA \notin present /\ DirJ \in dirs
    /\ SrcA \in DOMAIN error_files
    /\ SrcA \in mash_errors.lines
    /\ lastOutcome[SrcC] = "ok"

\* a source of a directory of the set has been written since its last
\* attempt ended, and needs_minifying is true of it
StaleAfterEdit(f) ==
    /\ running
    /\ f \in dirty /\ f \in present
    /\ dirname(f) \in MonitoredSet
    /\ needs_minifying(f)

\* C19 (as claimed): a source written after startup that is stale and not
\* suppressed is eventually passed to the Minifier (or the Minifier is at
\* work on it already), unless the process ends, the file is deleted or it
\* stops being stale.
C19_EditedFileEventuallyMinified ==
    \A f \in Sources :
        StaleAfterEdit(f) ~>
            \/ (pc \in {"launch", "read"} /\ cur = f)
            \/ ~running
            \/ f \notin present
            \/ ~needs_minifying(f)

====
